---- MODULE Spec2Model ----
(***************************************************************************)
(* FlexiHGT: the taxonomy index (HGTDetect.fetch_all_taxonomy_data), the   *)
(* per-gene classifier (HGTDetect.process_gene), the scorer                *)
(* (HGTDetect.hgt_calc) and the pipeline driver (cli.main) that fans the   *)
(* genes out over a ThreadPoolExecutor.                                    *)
(*                                                                         *)
(* Numbers that the program prints with format(x, '.4f') are kept as       *)
(* integers in units of 1/10000 (0.5 is 5000).  Taxon ids are integers     *)
(* where the program holds ints and strings where it holds strings;        *)
(* StrOf / TokenValue are the conversions between the two.                 *)
(***************************************************************************)
EXTENDS Integers, Sequences, FiniteSets, TLC

VARIABLES
    args,                 \* the parsed command line (cli.main, line 23)
    genes,                \* gene ids loaded from the fasta file, in file order
    table,                \* the search-result table (the .tsv file), a sequence of rows
    host_taxlevel,        \* result of get_refTax (0 before it ran)
    failed,               \* the lookups that raised inside fetch_all_taxonomy_data
    taxonomy_alignments,  \* str(taxid) -> (rank name -> taxid)
    ranks,                \* taxid -> rank name
    names,                \* taxid -> display name
    pc,                   \* position of the main thread in cli.main
    futures,              \* one future per submitted gene task
    results,              \* what list(executor.map(...)) has collected so far
    output,               \* rows handed to write_output
    completed,            \* task indexes in the order the tasks finished
    calls,                \* per task: the arguments hgt_calc was invoked with (<<>> if not)
    parts,                \* per task: what the classification loop of process_gene built
    hgt_in,               \* arguments of a direct hgt_calc call (scorer specification)
    HGT                   \* the list hgt_calc appends to and returns

vars == <<args, genes, table, host_taxlevel, failed, taxonomy_alignments, ranks, names,
          pc, futures, results, output, completed, calls, parts, hgt_in, HGT>>

-----------------------------------------------------------------------------
(* Bounds of the model *)

\* most hits of one gene in the search-result table
MaxHits == 3

(* Program constants *)

\* gene_results[:200]
HitCap == 200
\* format(x, '.4f'): four decimal digits
Scale == 10000

-----------------------------------------------------------------------------
(* Small helpers *)

Range(s) == {s[i] : i \in DOMAIN s}

Min(a, b) == IF a <= b THEN a ELSE b

SetMax(S) == CHOOSE x \in S : \A y \in S : y <= x

SetMin(S) == CHOOSE x \in S : \A y \in S : x <= y

EmptyMap == [k \in {} |-> 0]

\* the Python None of an optional value, and a present value
None == <<>>

Some(x) == <<x>>

-----------------------------------------------------------------------------
(* The taxonomy authority (ete3 NCBITaxa behind get_lineage / get_rank /   *)
(* get_name): a fixed snapshot with two families and three species.  Ids 1 *)
(* and 2 both carry the rank name "no rank", as the root and "cellular     *)
(* organisms" do in the NCBI taxonomy.                                     *)

TaxIds == 1 .. 7

get_lineage(taxid) ==
    CASE taxid = 1 -> <<1>>
      [] taxid = 2 -> <<1, 2>>
      [] taxid = 3 -> <<1, 2, 3>>
      [] taxid = 4 -> <<1, 2, 4>>
      [] taxid = 5 -> <<1, 2, 3, 5>>
      [] taxid = 6 -> <<1, 2, 4, 6>>
      [] taxid = 7 -> <<1, 2, 4, 7>>

get_rank(taxid) ==
    CASE taxid \in {1, 2} -> "no rank"
      [] taxid \in {3, 4} -> "family"
      [] taxid \in {5, 6, 7} -> "species"

get_name(taxid) ==
    CASE taxid = 1 -> "root"
      [] taxid = 2 -> "cellular organisms"
      [] taxid = 3 -> "FamA"
      [] taxid = 4 -> "FamB"
      [] taxid = 5 -> "SpA"
      [] taxid = 6 -> "SpB"
      [] taxid = 7 -> "SpC"

\* the lookups that can fail
Lookups == {"lineage", "rank", "name"} \X TaxIds

\* the sets of lookups that fail during one construction of the index: any
\* lineage lookups of the species, or one rank or name lookup
FailureSets ==
    SUBSET ({"lineage"} \X {5, 6, 7}) \cup {{l} : l \in {"rank", "name"} \X TaxIds}

-----------------------------------------------------------------------------
(* Conversions between taxon ids and their text *)

\* str(taxid)
StrOf(taxid) ==
    CASE taxid = 1 -> "1" [] taxid = 2 -> "2" [] taxid = 3 -> "3"
      [] taxid = 4 -> "4" [] taxid = 5 -> "5" [] taxid = 6 -> "6"
      [] taxid = 7 -> "7"

\* int(float(tid)) where it does not raise ValueError
TokenValue ==
    [tok \in {"1", "2", "3", "4", "5", "6", "7"} |->
        CHOOSE t \in TaxIds : StrOf(t) = tok]

Parses(tok) == tok \in DOMAIN TokenValue

-----------------------------------------------------------------------------
(* The search-result table.  A row is (gene id, accession, bitscore,       *)
(* staxids); staxids is the semicolon-separated list as a sequence of      *)
(* tokens, <<>> for an empty field (pandas NaN).                           *)

\* df[6].str.split(';') on one field after fillna(''): '' splits to ['']
SplitField(staxids) == IF staxids = <<>> THEN {""} ELSE Range(staxids)

\* .str.split(';').str[-1]
LastToken(staxids) == staxids[Len(staxids)]

\* pandas reads column 6 as a number column unless some field is not a number;
\* only a column of strings has the .str accessor process_gene uses
IsNumberField(staxids) ==
    staxids = <<>> \/ (Len(staxids) = 1 /\ Parses(staxids[1]))

HasStringColumn(tbl) == \E i \in DOMAIN tbl : ~IsNumberField(tbl[i].staxids)

-----------------------------------------------------------------------------
(* fetch_all_taxonomy_data, the index builder *)

\* a collection that keeps only the last id of every list
UniqueTaxids_LastOnly(tbl, query_taxid) ==
    LET tokens == {LastToken(tbl[i].staxids) : i \in {j \in DOMAIN tbl : tbl[j].staxids # <<>>}}
    IN  {TokenValue[tok] : tok \in {t \in tokens : Parses(t)}} \cup {query_taxid}

\* the ids collected from column 6 (every token of every list) and the query id
UniqueTaxids(tbl, query_taxid) ==
    LET tokens == UNION {SplitField(tbl[i].staxids) : i \in DOMAIN tbl}
    IN  {TokenValue[tok] : tok \in {t \in tokens : t # "" /\ Parses(t)}}
            \cup {query_taxid}

\* lineages that keep an id whose lookup raised, with an empty lineage
Lineages_EmptyOnFailure(unique_taxids, down) ==
    [tid \in unique_taxids |->
        IF <<"lineage", tid>> \in down THEN <<>> ELSE get_lineage(tid)]

\* lineages: the collected ids whose get_lineage did not raise
Lineages(unique_taxids, down) ==
    [tid \in {t \in unique_taxids : <<"lineage", t>> \notin down} |->
        get_lineage(tid)]

\* all_taxids: the lineage closure and the collected ids
AllTaxids(lineages, unique_taxids) ==
    UNION {Range(lineages[t]) : t \in DOMAIN lineages} \cup unique_taxids

\* ranks: get_rank is tried first, get_name only after it returned
RankMap(all_taxids, down) ==
    [tid \in {t \in all_taxids : <<"rank", t>> \notin down} |-> get_rank(tid)]

NameMap(all_taxids, down) ==
    [tid \in {t \in all_taxids : <<"rank", t>> \notin down
                                /\ <<"name", t>> \notin down} |-> get_name(tid)]

\* the dict that keeps the first ancestor of a rank name
RankDict_FirstWins(lineage, rk) ==
    LET known == {i \in DOMAIN lineage : lineage[i] \in DOMAIN rk}
    IN  [r \in {rk[lineage[i]] : i \in known} |->
            lineage[SetMin({i \in known : rk[lineage[i]] = r})]]

\* {ranks[tid]: tid for tid in lineage if tid in ranks}: a later ancestor with
\* the same rank name replaces an earlier one
RankDict(lineage, rk) ==
    LET known == {i \in DOMAIN lineage : lineage[i] \in DOMAIN rk}
    IN  [r \in {rk[lineage[i]] : i \in known} |->
            lineage[SetMax({i \in known : rk[lineage[i]] = r})]]

\* ranks.get(taxid, 'no rank')
OwnRank(taxid, rk) == IF taxid \in DOMAIN rk THEN rk[taxid] ELSE "no rank"

\* the alignment with the root of the lineage, not the taxon, under the own rank
Alignment_RootUnderOwnRank(taxid, lineage, rk) ==
    LET base == RankDict(lineage, rk)
        own  == OwnRank(taxid, rk)
    IN  [r \in DOMAIN base \cup {own} |-> IF r = own THEN lineage[1] ELSE base[r]]

\* the alignment of one taxon: the dict comprehension, then the taxon under its own rank
Alignment(taxid, lineage, rk) ==
    LET base == RankDict(lineage, rk)
        own  == OwnRank(taxid, rk)
    IN  [r \in DOMAIN base \cup {own} |-> IF r = own THEN taxid ELSE base[r]]

TaxonomyAlignments(lineages, rk) ==
    [key \in {StrOf(t) : t \in DOMAIN lineages} |->
        LET taxid == CHOOSE t \in DOMAIN lineages : StrOf(t) = key
        IN  Alignment(taxid, lineages[taxid], rk)]

-----------------------------------------------------------------------------
(* hgt_calc, the scorer *)

\* format(n / d, '.4f') in units of 1/Scale: the quotient rounded to the nearest
\* unit, an exact half going to the even neighbour
Round4(n, d) ==
    LET q == (Scale * n) \div d
        r == (Scale * n) % d
    IN  IF 2 * r > d \/ (2 * r = d /\ q % 2 = 1) THEN q + 1 ELSE q

\* the two divisions raise ZeroDivisionError on a zero denominator
DivisionRaises(max_recipient_organism_bitscore, outgroup_species_number, recipient_species_number) ==
    \/ max_recipient_organism_bitscore = 0
    \/ outgroup_species_number + recipient_species_number = 0

\* the decision taken when two of the three comparisons are enough
is_hgt_event_two_of_three(max_outgroup_bitscore, HGT_index, Outg_pct, HGTIndex, out_pct, bitscore_parameter) ==
    /\ max_outgroup_bitscore >= bitscore_parameter
    /\ HGT_index >= HGTIndex

is_hgt_event(max_outgroup_bitscore, HGT_index, Outg_pct, HGTIndex, out_pct, bitscore_parameter) ==
    /\ max_outgroup_bitscore >= bitscore_parameter
    /\ HGT_index >= HGTIndex
    /\ Outg_pct >= out_pct

\* the label of the result row
Taxonomy(event, donor_taxonomy) ==
    IF event
    THEN IF donor_taxonomy # "" THEN donor_taxonomy ELSE "Not available"
    ELSE "No"

\* defined where DivisionRaises is false; returns HGT with the item appended
hgt_calc(gene, max_outgroup_bitscore, max_recipient_organism_bitscore, outgroup_species_number, recipient_species_number, hgt, HGTIndex, out_pct, bitscore_parameter, donor_taxonomy) ==
    LET HGT_index == Round4(max_outgroup_bitscore, max_recipient_organism_bitscore)
        Outg_pct  == Round4(outgroup_species_number,
                            outgroup_species_number + recipient_species_number)
        event     == is_hgt_event(max_outgroup_bitscore, HGT_index, Outg_pct,
                                  HGTIndex, out_pct, bitscore_parameter)
    IN  Append(hgt, [gene      |-> gene,
                     bitscore  |-> max_outgroup_bitscore,
                     Out_pct   |-> Outg_pct,
                     HGT_index |-> HGT_index,
                     taxonomy  |-> Taxonomy(event, donor_taxonomy)])

-----------------------------------------------------------------------------
(* process_gene, the classifier *)

\* results[results[0] == gene], then [:200], then dropna(subset=[6])
GeneResults(tbl, gene) ==
    LET mine   == SelectSeq(tbl, LAMBDA row : row.gene = gene)
        capped == SubSeq(mine, 1, Min(Len(mine), HitCap))
    IN  SelectSeq(capped, LAMBDA row : row.staxids # <<>>)

\* dict(zip(accession_number, taxids)): the last row of an accession gives its taxid
AccessionToTaxid(rows) ==
    [acc \in {rows[i].acc : i \in DOMAIN rows} |->
        LastToken(rows[SetMax({i \in DOMAIN rows : rows[i].acc = acc})].staxids)]

\* {acc: bs for acc, bs in zip(accession_number, accession_bitscore) if acc in accs}:
\* the last row of an accession gives its bitscore
AccessionBitscore(rows, accs) ==
    [acc \in {rows[i].acc : i \in DOMAIN rows} \cap accs |->
        rows[SetMax({i \in DOMAIN rows : rows[i].acc = acc})].bitscore]

\* max(d.values()) if d else 0
MaxBitscore(d) == IF DOMAIN d = {} THEN 0 ELSE SetMax({d[acc] : acc \in DOMAIN d})

\* max(d, key=d.get): the first key, in insertion order, that has the largest value
MaxKey(rows, d) ==
    LET best  == {acc \in DOMAIN d : d[acc] = MaxBitscore(d)}
        first == SetMin({i \in DOMAIN rows : rows[i].acc \in best})
    IN  rows[first].acc

\* the branch taken when any entry at the target rank makes a recipient
Classify_AnyEntryAtRank(taxid, ta, tax_level, gene_taxlevel) ==
    IF taxid \notin DOMAIN ta THEN "skipped"
    ELSE IF tax_level \in DOMAIN ta[taxid] THEN "recipient" ELSE "outgroup"

\* the branch of the classification loop one (accession, taxid) pair takes
Classify(taxid, ta, tax_level, gene_taxlevel) ==
    IF taxid \notin DOMAIN ta THEN "skipped"
    ELSE IF tax_level \in DOMAIN ta[taxid] /\ ta[taxid][tax_level] = gene_taxlevel
         THEN "recipient"
         ELSE "outgroup"

\* names.get(taxonomy_alignment.get('species'), 'Unknown')
SpeciesName(alignment, nm) ==
    IF "species" \in DOMAIN alignment /\ alignment["species"] \in DOMAIN nm
    THEN nm[alignment["species"]]
    ELSE "Unknown"

\* the donor label: the strongest outgroup accession's ancestor name at the target rank
DonorTaxonomy(rows, outgroup_accession_bitscore, accession_to_taxid, ta, nm, tax_level) ==
    IF DOMAIN outgroup_accession_bitscore = {} THEN "Not available"
    ELSE LET max_outgroup_acc == MaxKey(rows, outgroup_accession_bitscore)
             donor_taxid      == accession_to_taxid[max_outgroup_acc]
         IN  IF /\ donor_taxid \in DOMAIN ta
                /\ tax_level \in DOMAIN ta[donor_taxid]
                /\ ta[donor_taxid][tax_level] \in DOMAIN nm
             THEN nm[ta[donor_taxid][tax_level]]
             ELSE "Not available"

\* what the loop has built when it was never entered
NoParts ==
    [classified          |-> FALSE,
     recipient_accession |-> {}, outgroup_accession |-> {},
     recipient_species   |-> {}, outgroup_species   |-> {},
     max_recipient_organism_bitscore |-> 0, max_outgroup_bitscore |-> 0]

\* None without a scorer call: an early return, or an exception "except Exception" caught
NoResult == [raised |-> "none", result |-> None, call |-> None, part |-> NoParts]

\* a guard that looks at the outgroup bitscore alone
BothBitscores_OutgroupOnly(max_outgroup_bitscore, max_recipient_organism_bitscore) ==
    max_outgroup_bitscore # 0

\* the guard in front of the scorer
BothBitscores(max_outgroup_bitscore, max_recipient_organism_bitscore) ==
    max_outgroup_bitscore # 0 /\ max_recipient_organism_bitscore # 0

\* lines 251-304: the loop, the bitscore maxima and the guarded call of hgt_calc
ClassifyAndScore(gene, rows, a, ta, nm, gene_taxlevel) ==
    LET accession_to_taxid == AccessionToTaxid(rows)
        class(acc) == Classify(accession_to_taxid[acc], ta, a.tax_level, gene_taxlevel)
        recipient_accession == {acc \in DOMAIN accession_to_taxid : class(acc) = "recipient"}
        outgroup_accession  == {acc \in DOMAIN accession_to_taxid : class(acc) = "outgroup"}
        recipient_species ==
            {SpeciesName(ta[accession_to_taxid[acc]], nm) : acc \in recipient_accession}
        outgroup_species ==
            {SpeciesName(ta[accession_to_taxid[acc]], nm) : acc \in outgroup_accession}
        recipient_accession_bitscore == AccessionBitscore(rows, recipient_accession)
        outgroup_accession_bitscore  == AccessionBitscore(rows, outgroup_accession)
        max_recipient_organism_bitscore == MaxBitscore(recipient_accession_bitscore)
        max_outgroup_bitscore           == MaxBitscore(outgroup_accession_bitscore)
        recipient_species_number == Cardinality(recipient_species)
        outgroup_species_number  == Cardinality(outgroup_species)
        part == [classified          |-> TRUE,
                 recipient_accession |-> recipient_accession,
                 outgroup_accession  |-> outgroup_accession,
                 recipient_species   |-> recipient_species,
                 outgroup_species    |-> outgroup_species,
                 max_recipient_organism_bitscore |-> max_recipient_organism_bitscore,
                 max_outgroup_bitscore           |-> max_outgroup_bitscore]
        donor_taxonomy == DonorTaxonomy(rows, outgroup_accession_bitscore,
                                        accession_to_taxid, ta, nm, a.tax_level)
        call == [max_outgroup_bitscore           |-> max_outgroup_bitscore,
                 max_recipient_organism_bitscore |-> max_recipient_organism_bitscore,
                 outgroup_species_number         |-> outgroup_species_number,
                 recipient_species_number        |-> recipient_species_number,
                 donor_taxonomy                  |-> donor_taxonomy]
    IN  IF BothBitscores(max_outgroup_bitscore, max_recipient_organism_bitscore)
        THEN IF DivisionRaises(max_recipient_organism_bitscore,
                               outgroup_species_number, recipient_species_number)
             THEN [raised |-> "none", result |-> None, call |-> Some(call), part |-> part]
             ELSE LET hgt_result ==
                          hgt_calc(gene, max_outgroup_bitscore,
                                   max_recipient_organism_bitscore,
                                   outgroup_species_number, recipient_species_number,
                                   <<>>, a.HGTIndex, a.out_pct, a.bitscore_parameter,
                                   donor_taxonomy)
                  IN  [raised |-> "none", result |-> Some(hgt_result[1]),
                       call |-> Some(call), part |-> part]
        ELSE [raised |-> "none", result |-> None, call |-> None, part |-> part]

\* load_diamond_results: EmptyDataError is answered with sys.exit()
LoadRaises(read) == IF read = "empty" THEN "SystemExit" ELSE "none"

\* "except Exception" does not catch SystemExit
ExceptException(raised) == IF raised = "SystemExit" THEN "SystemExit" ELSE "none"

\* the lookup that falls back on hosttax where the index has no answer
GeneTaxlevel_FallsBackOnHosttax(a, ta, hosttax) ==
    IF /\ StrOf(a.query_tax) \in DOMAIN ta
       /\ a.tax_level \in DOMAIN ta[StrOf(a.query_tax)]
    THEN [raised |-> "none", value |-> Some(ta[StrOf(a.query_tax)][a.tax_level])]
    ELSE [raised |-> "none", value |-> Some(hosttax)]

\* line 242: taxonomy_alignments[str(args.query_tax)].get(args.tax_level); hosttax
\* is a parameter of process_gene that this line does not use
GeneTaxlevel(a, ta, hosttax) ==
    IF StrOf(a.query_tax) \notin DOMAIN ta
    THEN [raised |-> "KeyError", value |-> None]
    ELSE IF a.tax_level \notin DOMAIN ta[StrOf(a.query_tax)]
    THEN [raised |-> "none", value |-> None]
    ELSE [raised |-> "none", value |-> Some(ta[StrOf(a.query_tax)][a.tax_level])]

\* the whole of process_gene for one gene; read is what pd.read_csv met
process_gene(gene, tbl, read, a, ta, nm, hosttax) ==
    IF LoadRaises(read) # "none"
    THEN [NoResult EXCEPT !.raised = ExceptException(LoadRaises(read))]
    ELSE IF ~HasStringColumn(tbl)
    THEN NoResult   \* AttributeError (.str on a number column), caught
    ELSE LET gene_taxlevel == GeneTaxlevel(a, ta, hosttax)
         IN  IF gene_taxlevel.raised # "none"
             THEN [NoResult EXCEPT !.raised = ExceptException(gene_taxlevel.raised)]
             ELSE IF gene_taxlevel.value = None
             THEN NoResult   \* return None
             ELSE ClassifyAndScore(gene, GeneResults(tbl, gene), a, ta, nm,
                                   gene_taxlevel.value[1])

-----------------------------------------------------------------------------
(* get_refTax *)

\* the query's ancestor at tax_level, 0 where get_refTax prints the error and exits
RefTax(qtaxid, tax_level, down) ==
    IF <<"lineage", qtaxid>> \in down THEN 0
    ELSE LET gene_lineage == get_lineage(qtaxid)
             found == {i \in DOMAIN gene_lineage :
                          /\ <<"rank", gene_lineage[i]>> \notin down
                          /\ get_rank(gene_lineage[i]) = tax_level}
         IN  IF found = {} THEN 0 ELSE gene_lineage[SetMax(found)]

-----------------------------------------------------------------------------
(* Inputs *)

\* the command line: the default thresholds 100 and 0.5, --out_pct 0.5, the
\* default rank "family", -q 5
ArgsSet ==
    {[query_tax |-> 5, tax_level |-> "family", bitscore_parameter |-> 100,
      HGTIndex |-> 5000, out_pct |-> op] : op \in {5000}}

\* the subject sequences of the search database with their staxids field: a1 is
\* of the query's species, a2 of another family (a list of two ids), a3 has a
\* field that is no number, a4 has an empty field
Staxids ==
    [acc \in {"a1", "a2", "a3", "a4"} |->
        CASE acc = "a1" -> <<"5">>
          [] acc = "a2" -> <<"7", "6">>
          [] acc = "a3" -> <<"x">>
          [] acc = "a4" -> <<>>]

\* the hits a gene can have: (accession, bitscore)
Hits ==
    {<<"a1", 100>>, <<"a2", 50>>, <<"a2", 100>>, <<"a3", 150>>, <<"a4", 150>>}

HitLists == UNION {[1 .. n -> Hits] : n \in 0 .. MaxHits}

GeneLists == {<<"g1">>, <<"g1", "g2">>}

\* the rows of one gene
GeneRows(g, hits) ==
    [i \in DOMAIN hits |->
        [gene |-> g, acc |-> hits[i][1], bitscore |-> hits[i][2],
         staxids |-> Staxids[hits[i][1]]]]

\* the table the search writes: the genes in file order, each with its hits
RECURSIVE SearchTable(_, _)
SearchTable(gs, hits) ==
    IF gs = <<>> THEN <<>>
    ELSE GeneRows(Head(gs), hits) \o SearchTable(Tail(gs), hits)

NoCalcInput ==
    [max_outgroup_bitscore |-> 0, max_recipient_organism_bitscore |-> 0,
     outgroup_species_number |-> 0, recipient_species_number |-> 0,
     HGTIndex |-> 0, out_pct |-> 0, bitscore_parameter |-> 0,
     donor_taxonomy |-> ""]

Init ==
    /\ args \in ArgsSet
    /\ genes \in GeneLists
    /\ \E hits \in HitLists : table = SearchTable(genes, hits)
    /\ host_taxlevel = 0
    /\ failed = {}
    /\ taxonomy_alignments = EmptyMap
    /\ ranks = EmptyMap
    /\ names = EmptyMap
    /\ pc = "get_refTax"
    /\ futures = <<>>
    /\ results = <<>>
    /\ output = <<>>
    /\ completed = <<>>
    /\ calls = <<>>
    /\ parts = <<>>
    /\ hgt_in = NoCalcInput
    /\ HGT = <<>>

-----------------------------------------------------------------------------
(* cli.main and the worker threads *)

\* line 25: get_refTax returns the host's ancestor or exits the program
GetRefTax ==
    /\ pc = "get_refTax"
    /\ \E down \in FailureSets :
          LET gene_taxlevel == RefTax(args.query_tax, args.tax_level, down)
          IN  /\ host_taxlevel' = gene_taxlevel
              /\ pc' = IF gene_taxlevel = 0 THEN "exited" ELSE "fetch"
    /\ UNCHANGED <<args, genes, table, failed, taxonomy_alignments, ranks, names, futures,
                   results, output, completed, calls, parts, hgt_in, HGT>>

\* the lookups one construction of the index performs: a lineage per collected
\* id, then a rank per id of all_taxids and, where the rank came back, a name
Performed(unique_taxids, down) ==
    LET all_taxids ==
            AllTaxids(Lineages(unique_taxids, down \cap ({"lineage"} \X TaxIds)),
                      unique_taxids)
    IN  ({"lineage"} \X unique_taxids) \cup ({"rank"} \X all_taxids)
            \cup ({"name"} \X {t \in all_taxids : <<"rank", t>> \notin down})

\* the index builder without the try around get_lineage: a failing lineage
\* lookup ends the program
FetchAllTaxonomyData_Raises ==
    /\ pc = "fetch"
    /\ IF table = <<>>
       THEN /\ pc' = "exited"
            /\ UNCHANGED <<failed, ranks, names, taxonomy_alignments>>
       ELSE \E down \in FailureSets :
          LET unique_taxids == UniqueTaxids(table, args.query_tax)
              lineages      == Lineages(unique_taxids, down)
              all_taxids    == AllTaxids(lineages, unique_taxids)
              rk            == RankMap(all_taxids, down)
          IN  /\ down \subseteq Performed(unique_taxids, down)
              /\ failed' = down
              /\ IF down \cap ({"lineage"} \X TaxIds) # {}
                 THEN /\ pc' = "exited"
                      /\ UNCHANGED <<ranks, names, taxonomy_alignments>>
                 ELSE /\ pc' = "submit"
                      /\ ranks' = rk
                      /\ names' = NameMap(all_taxids, down)
                      /\ taxonomy_alignments' = TaxonomyAlignments(lineages, rk)
    /\ UNCHANGED <<args, genes, table, host_taxlevel, futures, results, output,
                   completed, calls, parts, hgt_in, HGT>>

\* line 29: the index is built by the main thread, before the executor exists;
\* every lookup that raises is caught, printed and skipped.  A search output
\* without any row is an empty file: pd.read_csv (line 328) raises
\* EmptyDataError, which nothing catches, and the program ends.
FetchAllTaxonomyData ==
    /\ pc = "fetch"
    /\ IF table = <<>>
       THEN /\ pc' = "exited"
            /\ UNCHANGED <<failed, ranks, names, taxonomy_alignments>>
       ELSE \E down \in FailureSets :
          LET unique_taxids == UniqueTaxids(table, args.query_tax)
              lineages      == Lineages(unique_taxids, down)
              all_taxids    == AllTaxids(lineages, unique_taxids)
              rk            == RankMap(all_taxids, down)
          IN  /\ down \subseteq Performed(unique_taxids, down)
              /\ failed' = down
              /\ ranks' = rk
              /\ names' = NameMap(all_taxids, down)
              /\ taxonomy_alignments' = TaxonomyAlignments(lineages, rk)
              /\ pc' = "submit"
    /\ UNCHANGED <<args, genes, table, host_taxlevel, futures, results, output,
                   completed, calls, parts, hgt_in, HGT>>

PendingFuture == [state |-> "pending", raised |-> "none", result |-> None]

\* line 31: executor.map submits one future per gene, in gene order
Submit ==
    /\ pc = "submit"
    /\ futures' = [i \in DOMAIN genes |-> PendingFuture]
    /\ calls' = [i \in DOMAIN genes |-> None]
    /\ parts' = [i \in DOMAIN genes |-> NoParts]
    /\ pc' = "collect"
    /\ UNCHANGED <<args, genes, table, host_taxlevel, failed, taxonomy_alignments, ranks,
                   names, results, output, completed, hgt_in, HGT>>

\* a worker thread takes a pending future and marks it running
StartGene(i) ==
    /\ pc \in {"collect", "shutdown"}
    /\ futures[i].state = "pending"
    /\ futures' = [futures EXCEPT ![i].state = "running"]
    /\ UNCHANGED <<args, genes, table, host_taxlevel, failed, taxonomy_alignments, ranks,
                   names, pc, results, output, completed, calls, parts, hgt_in, HGT>>

\* the worker whose process_gene reads the query's alignment with
\* taxonomy_alignments.setdefault(str(args.query_tax), {})
ProcessGene_SetDefault(i) ==
    /\ futures[i].state = "running"
    /\ \E read \in {"ok", "empty"} :
          LET r == process_gene(genes[i], table, read, args,
                                taxonomy_alignments, names, host_taxlevel)
          IN  /\ futures' = [futures EXCEPT ![i] =
                    [state |-> "finished", raised |-> r.raised, result |-> r.result]]
              /\ calls' = [calls EXCEPT ![i] = r.call]
              /\ parts' = [parts EXCEPT ![i] = r.part]
              /\ taxonomy_alignments' =
                    IF read = "ok" /\ HasStringColumn(table)
                    THEN [key \in DOMAIN taxonomy_alignments \cup {StrOf(args.query_tax)} |->
                            IF key \in DOMAIN taxonomy_alignments
                            THEN taxonomy_alignments[key] ELSE EmptyMap]
                    ELSE taxonomy_alignments
    /\ completed' = Append(completed, i)
    /\ UNCHANGED <<args, genes, table, host_taxlevel, failed, ranks,
                   names, pc, results, output, hgt_in, HGT>>

\* the worker runs process_gene and stores its result or exception in the future
ProcessGene(i) ==
    /\ futures[i].state = "running"
    /\ \E read \in {"ok", "empty"} :
          LET r == process_gene(genes[i], table, read, args,
                                taxonomy_alignments, names, host_taxlevel)
          IN  /\ futures' = [futures EXCEPT ![i] =
                    [state |-> "finished", raised |-> r.raised, result |-> r.result]]
              /\ calls' = [calls EXCEPT ![i] = r.call]
              /\ parts' = [parts EXCEPT ![i] = r.part]
    /\ completed' = Append(completed, i)
    /\ UNCHANGED <<args, genes, table, host_taxlevel, failed, taxonomy_alignments, ranks,
                   names, pc, results, output, hgt_in, HGT>>

\* futures.cancel() on what the result iterator has not yielded: only a pending
\* future can be cancelled
CancelRest(fs, from) ==
    [i \in DOMAIN fs |->
        IF i > from /\ fs[i].state = "pending"
        THEN [fs[i] EXCEPT !.state = "cancelled"]
        ELSE fs[i]]

\* a collector that takes the results as the tasks finish (as_completed order)
Collect_AsCompleted ==
    /\ pc = "collect"
    /\ Len(completed) > Len(results)
    /\ LET next == completed[Len(results) + 1]
       IN  /\ IF futures[next].raised # "none"
              THEN /\ futures' = CancelRest(futures, 0)
                   /\ pc' = "shutdown"
                   /\ UNCHANGED results
              ELSE /\ results' = Append(results, futures[next].result)
                   /\ pc' = IF Len(results) + 1 = Len(futures) THEN "write" ELSE "collect"
                   /\ UNCHANGED futures
    /\ UNCHANGED <<args, genes, table, host_taxlevel, failed, taxonomy_alignments, ranks,
                   names, output, completed, calls, parts, hgt_in, HGT>>

\* line 31: list(...) takes the next result in submission order; a future that
\* holds an exception re-raises it in the main thread
Collect ==
    /\ pc = "collect"
    /\ LET next == Len(results) + 1
       IN  /\ next \in DOMAIN futures
           /\ futures[next].state = "finished"
           /\ IF futures[next].raised # "none"
              THEN /\ futures' = CancelRest(futures, next)
                   /\ pc' = "shutdown"
                   /\ UNCHANGED results
              ELSE /\ results' = Append(results, futures[next].result)
                   /\ pc' = IF next = Len(futures) THEN "write" ELSE "collect"
                   /\ UNCHANGED futures
    /\ UNCHANGED <<args, genes, table, host_taxlevel, failed, taxonomy_alignments, ranks,
                   names, output, completed, calls, parts, hgt_in, HGT>>

\* the with block is left on the exception: shutdown(wait=True) joins the running
\* workers, then SystemExit ends the program before write_output
Shutdown ==
    /\ pc = "shutdown"
    /\ \A i \in DOMAIN futures : futures[i].state # "running"
    /\ pc' = "exited"
    /\ UNCHANGED <<args, genes, table, host_taxlevel, failed, taxonomy_alignments, ranks,
                   names, futures, results, output, completed, calls, parts,
                   hgt_in, HGT>>

\* [r for r in results if r is not None]
NotNone(rs) == SelectSeq(rs, LAMBDA r : r # None)

\* lines 34-35
WriteOutput ==
    /\ pc = "write"
    /\ output' = NotNone(results)
    /\ pc' = "done"
    /\ UNCHANGED <<args, genes, table, host_taxlevel, failed, taxonomy_alignments, ranks,
                   names, futures, results, completed, calls, parts, hgt_in, HGT>>

Next ==
    \/ GetRefTax
    \/ FetchAllTaxonomyData
    \/ Submit
    \/ \E i \in DOMAIN futures : StartGene(i)
    \/ \E i \in DOMAIN futures : ProcessGene(i)
    \/ Collect
    \/ Shutdown
    \/ WriteOutput

Spec == Init /\ [][Next]_vars

-----------------------------------------------------------------------------
(* The scorer on its own: hgt_calc applied to arguments drawn from small sets *)

\* most species of one partition handed to the scorer
MaxSpecies == 2

CalcInputs ==
    [max_outgroup_bitscore           : {0, 50, 100, 150},
     max_recipient_organism_bitscore : {0, 50, 100, 150},
     outgroup_species_number         : 0 .. MaxSpecies,
     recipient_species_number        : 0 .. MaxSpecies,
     HGTIndex                        : {5000, 6667, 15000},
     out_pct                         : {5000, 8000},
     bitscore_parameter              : {100},
     donor_taxonomy                  : {"", "FamB", "Not available"}]

InitCalc ==
    /\ args \in ArgsSet
    /\ genes = <<"g1">>
    /\ table = <<>>
    /\ host_taxlevel = 0
    /\ failed = {}
    /\ taxonomy_alignments = EmptyMap
    /\ ranks = EmptyMap
    /\ names = EmptyMap
    /\ pc = "hgt_calc"
    /\ futures = <<>>
    /\ results = <<>>
    /\ output = <<>>
    /\ completed = <<>>
    /\ calls = <<>>
    /\ parts = <<>>
    /\ hgt_in \in CalcInputs
    /\ HGT = <<>>

\* one call of hgt_calc with HGT = []: it returns the list, or a division raises
HgtCalc ==
    /\ pc = "hgt_calc"
    /\ IF DivisionRaises(hgt_in.max_recipient_organism_bitscore,
                         hgt_in.outgroup_species_number,
                         hgt_in.recipient_species_number)
       THEN /\ pc' = "raised"
            /\ UNCHANGED HGT
       ELSE /\ pc' = "returned"
            /\ HGT' = hgt_calc(genes[1], hgt_in.max_outgroup_bitscore,
                               hgt_in.max_recipient_organism_bitscore,
                               hgt_in.outgroup_species_number,
                               hgt_in.recipient_species_number, HGT,
                               hgt_in.HGTIndex, hgt_in.out_pct,
                               hgt_in.bitscore_parameter, hgt_in.donor_taxonomy)
    /\ UNCHANGED <<args, genes, table, host_taxlevel, failed, taxonomy_alignments, ranks,
                   names, futures, results, output, completed, calls, parts, hgt_in>>

SpecCalc == InitCalc /\ [][HgtCalc]_vars

-----------------------------------------------------------------------------
(* Claims *)

\* the label a positive decision gives
DonorLabel(donor_taxonomy) ==
    IF donor_taxonomy = "" THEN "Not available" ELSE donor_taxonomy

\* the three comparisons of a returned row against the thresholds of the call
BitscoreOk == HGT[1].bitscore >= hgt_in.bitscore_parameter

IndexOk == HGT[1].HGT_index >= hgt_in.HGTIndex

OutPctOk == HGT[1].Out_pct >= hgt_in.out_pct

\* C1: whenever hgt_calc returns, the row it emits carries the donor label
\* ("Not available" for an empty donor label) if the outgroup bitscore, the
\* HGT index and Out_pct of that row all reach their thresholds, and the
\* literal "No" as soon as one of the three comparisons fails.
C1_StrictConjunction ==
    pc = "returned" =>
        /\ Len(HGT) = 1
        /\ HGT[1].bitscore = hgt_in.max_outgroup_bitscore
        /\ (BitscoreOk /\ IndexOk /\ OutPctOk)
              => HGT[1].taxonomy = DonorLabel(hgt_in.donor_taxonomy)
        /\ ~(BitscoreOk /\ IndexOk /\ OutPctOk) => HGT[1].taxonomy = "No"

\* C1 witness: a returned row that fails only the Out_pct comparison and is "No"
C1_Witness ==
    /\ pc = "returned"
    /\ BitscoreOk /\ IndexOk /\ ~OutPctOk
    /\ HGT[1].taxonomy = "No"
    /\ hgt_in.donor_taxonomy = "FamB"

\* the main thread is past fetch_all_taxonomy_data
IndexBuilt ==
    \/ pc \in {"submit", "collect", "shutdown", "write", "done"}
    \/ (pc = "exited" /\ futures # <<>>)

\* the ids the index builder collected
Collected == UniqueTaxids(table, args.query_tax)

Finished(i) == futures[i].state = "finished"

\* C2: a finished gene task invoked the scorer only with a non-zero recipient
\* bitscore, a non-zero outgroup bitscore and a non-zero species total, and a
\* task whose recipient or outgroup maximum is zero made no scorer call and has
\* no result.
C2_ScorerOnlyWithBothBitscores ==
    \A i \in DOMAIN futures :
        Finished(i) =>
            /\ calls[i] # None =>
                  /\ calls[i][1].max_recipient_organism_bitscore # 0
                  /\ calls[i][1].max_outgroup_bitscore # 0
                  /\ calls[i][1].outgroup_species_number
                        + calls[i][1].recipient_species_number # 0
            /\ (\/ parts[i].max_recipient_organism_bitscore = 0
                \/ parts[i].max_outgroup_bitscore = 0)
                  => calls[i] = None /\ futures[i].result = None

\* C2 witness: a task classified outgroup hits but no recipient hit, and was
\* not scored
C2_Witness ==
    \E i \in DOMAIN futures :
        /\ Finished(i)
        /\ parts[i].classified
        /\ parts[i].max_outgroup_bitscore # 0
        /\ parts[i].max_recipient_organism_bitscore = 0
        /\ calls[i] = None
        /\ futures[i].result = None

\* C3: once the index is built, every collected id whose lineage and rank
\* lookups succeeded is mapped to itself under its own rank.
C3_OwnRankMapsToSelf ==
    IndexBuilt =>
        \A T \in Collected :
            (<<"lineage", T>> \notin failed /\ <<"rank", T>> \notin failed) =>
                /\ StrOf(T) \in DOMAIN taxonomy_alignments
                /\ get_rank(T) \in DOMAIN taxonomy_alignments[StrOf(T)]
                /\ taxonomy_alignments[StrOf(T)][get_rank(T)] = T

\* C3 witness: the index holds a hit's taxon under its own rank while another
\* taxon's rank lookup failed
C3_Witness ==
    /\ IndexBuilt
    /\ 6 \in Collected
    /\ <<"rank", 5>> \in failed
    /\ "6" \in DOMAIN taxonomy_alignments
    /\ taxonomy_alignments["6"]["species"] = 6

\* C4 as claimed: once the index is built, every ancestor (with a rank in the
\* rank map) of every indexed taxon sits in that taxon's alignment under the
\* ancestor's rank, also when several ancestors carry the same rank name.
C4_EveryAncestorUnderItsRank ==
    IndexBuilt =>
        \A key \in DOMAIN taxonomy_alignments :
            LET L == get_lineage(TokenValue[key])
            IN  \A i \in DOMAIN L :
                    L[i] \in DOMAIN ranks =>
                        /\ ranks[L[i]] \in DOMAIN taxonomy_alignments[key]
                        /\ taxonomy_alignments[key][ranks[L[i]]] = L[i]

\* C4 amended: once the index is built, for every indexed taxon T with lineage L
\* and every ancestor A in L whose rank is in the rank map, the alignment of T
\* has an entry for rank(A); the entry is T when rank(A) is T's own key (rank(T),
\* or "no rank" when T has no rank in the map), and otherwise it is the last
\* ancestor in L that carries that rank name, so it is A exactly when no later
\* ancestor shares A's rank name.
C4_LastAncestorPerRank ==
    IndexBuilt =>
        \A key \in DOMAIN taxonomy_alignments :
            LET T == TokenValue[key]
                L == get_lineage(T)
                own == IF T \in DOMAIN ranks THEN ranks[T] ELSE "no rank"
            IN  /\ taxonomy_alignments[key][own] = T
                /\ \A i \in DOMAIN L :
                      L[i] \in DOMAIN ranks =>
                          /\ ranks[L[i]] \in DOMAIN taxonomy_alignments[key]
                          /\ (/\ ranks[L[i]] # own
                              /\ \A j \in DOMAIN L :
                                    (j > i /\ L[j] \in DOMAIN ranks)
                                        => ranks[L[j]] # ranks[L[i]])
                                => taxonomy_alignments[key][ranks[L[i]]] = L[i]
                          /\ (taxonomy_alignments[key][ranks[L[i]]] = L[i]) =>
                                \/ L[i] = T
                                \/ (/\ ranks[L[i]] # own
                                    /\ \A j \in DOMAIN L :
                                          (j > i /\ L[j] \in DOMAIN ranks)
                                              => ranks[L[j]] # ranks[L[i]])

\* C4 witness: the root and its child both have the rank name "no rank", both
\* ranks are in the map, and the alignment keeps the child
C4_Witness ==
    /\ IndexBuilt
    /\ "6" \in DOMAIN taxonomy_alignments
    /\ {1, 2} \subseteq DOMAIN ranks
    /\ ranks[1] = ranks[2]
    /\ taxonomy_alignments["6"]["no rank"] = 2

\* the rows of task i that process_gene retains
Retained(i) == GeneResults(table, genes[i])

\* the query's ancestor at the target rank, as the index has it
QueryAncestor == taxonomy_alignments[StrOf(args.query_tax)][args.tax_level]

\* the taxon id of a retained row is in the index and shares the query's ancestor
SharesQueryGroup(taxid) ==
    /\ taxid \in DOMAIN taxonomy_alignments
    /\ args.tax_level \in DOMAIN taxonomy_alignments[taxid]
    /\ taxonomy_alignments[taxid][args.tax_level] = QueryAncestor

\* C5: in a finished task whose classification loop ran, every retained row's
\* accession is in neither set when its taxon id is absent from the index, in
\* the recipient set alone when its taxon shares the query's ancestor at the
\* target rank, and in the outgroup set alone otherwise; the two sets are
\* disjoint, hold retained accessions only, and each partition's species set
\* and max bitscore come from rows of that partition's accessions.
C5_ThreeWayClassification ==
    \A i \in DOMAIN futures :
        (Finished(i) /\ parts[i].classified) =>
            LET rows == Retained(i)
                rec  == parts[i].recipient_accession
                out  == parts[i].outgroup_accession
                accs(S) == {k \in DOMAIN rows : rows[k].acc \in S}
                species(k) ==
                    SpeciesName(taxonomy_alignments[LastToken(rows[k].staxids)], names)
            IN  /\ rec \cap out = {}
                /\ rec \cup out \subseteq {rows[k].acc : k \in DOMAIN rows}
                /\ \A k \in DOMAIN rows :
                      LET taxid == LastToken(rows[k].staxids)
                      IN  IF taxid \notin DOMAIN taxonomy_alignments
                          THEN rows[k].acc \notin rec \cup out
                          ELSE IF SharesQueryGroup(taxid)
                          THEN rows[k].acc \in rec
                          ELSE rows[k].acc \in out
                /\ parts[i].recipient_species = {species(k) : k \in accs(rec)}
                /\ parts[i].outgroup_species = {species(k) : k \in accs(out)}
                /\ parts[i].max_recipient_organism_bitscore
                      \in {0} \cup {rows[k].bitscore : k \in accs(rec)}
                /\ parts[i].max_outgroup_bitscore
                      \in {0} \cup {rows[k].bitscore : k \in accs(out)}
                /\ \A k \in DOMAIN table :
                      (table[k].gene = genes[i] /\ table[k].staxids = <<>>)
                          => table[k].acc \notin rec \cup out

\* C5 witness: one task met a hit of each class, the skipped hit having the
\* largest bitscore of the gene
C5_Witness ==
    \E i \in DOMAIN futures :
        /\ Finished(i)
        /\ parts[i].classified
        /\ parts[i].recipient_accession = {"a1"}
        /\ parts[i].outgroup_accession = {"a2"}
        /\ \E k \in DOMAIN Retained(i) : Retained(i)[k].acc = "a3"
        /\ parts[i].max_outgroup_bitscore < 150
        /\ parts[i].max_recipient_organism_bitscore < 150

\* the query has no usable entry in the index
QueryUnclassifiable ==
    \/ StrOf(args.query_tax) \notin DOMAIN taxonomy_alignments
    \/ args.tax_level \notin DOMAIN taxonomy_alignments[StrOf(args.query_tax)]

\* C6: when the query taxon id has no entry in the index, or its entry has no
\* ancestor at the target rank, every finished gene task has no result, made no
\* scorer call and classified no hit.
C6_UnclassifiableQuery ==
    (IndexBuilt /\ QueryUnclassifiable) =>
        \A i \in DOMAIN futures :
            Finished(i) =>
                /\ futures[i].result = None
                /\ calls[i] = None
                /\ ~parts[i].classified
                /\ parts[i].recipient_accession \cup parts[i].outgroup_accession = {}

\* C6 witness: the query is absent from the index and a gene with a recipient
\* hit and an outgroup hit returned None
C6_Witness ==
    /\ IndexBuilt
    /\ StrOf(args.query_tax) \notin DOMAIN taxonomy_alignments
    /\ \E i \in DOMAIN futures :
          /\ Finished(i)
          /\ futures[i].raised = "none"
          /\ futures[i].result = None
          /\ {"a1", "a2"} \subseteq {Retained(i)[k].acc : k \in DOMAIN Retained(i)}

\* the main thread has left the with block of cli.main
RunEnded == pc \in {"done", "exited"} /\ futures # <<>>

\* C7 as claimed: no gene task is ever cancelled, and a run that fanned out ends
\* with every task finished, every failure turned into a None result, one
\* collected result per gene and the output written.
C7_FailureIsolated ==
    /\ \A i \in DOMAIN futures : futures[i].state # "cancelled"
    /\ RunEnded =>
          /\ pc = "done"
          /\ \A i \in DOMAIN futures : Finished(i) /\ futures[i].raised = "none"
          /\ Len(results) = Len(genes)

\* C8: no gene task leaves the pending state before the main thread is past
\* fetch_all_taxonomy_data, and from the moment the futures exist no step
\* changes taxonomy_alignments, ranks or names.
C8_IndexBuiltBeforeFanOutAndReadOnly ==
    /\ [](\A i \in DOMAIN futures : futures[i].state # "pending" => IndexBuilt)
    /\ [][futures # <<>> => UNCHANGED <<taxonomy_alignments, ranks, names>>]_vars

\* C8 witness: one task has finished and another is running; the index is built
\* and does not hold the query
C8_Witness ==
    /\ IndexBuilt
    /\ StrOf(args.query_tax) \notin DOMAIN taxonomy_alignments
    /\ taxonomy_alignments # EmptyMap
    /\ \E i, j \in DOMAIN futures : Finished(i) /\ futures[j].state = "running"

\* C9: given a result table with rows to read, fetch_all_taxonomy_data always
\* returns to the main thread, whatever lookups fail, and on its return every
\* collected id whose lineage lookup did not fail has an entry in
\* taxonomy_alignments.
C9_IndexConstructionNeverAborts ==
    [][pc = "fetch" /\ table # <<>> =>
          /\ pc' = "submit"
          /\ \A T \in Collected :
                <<"lineage", T>> \notin failed'
                    => StrOf(T) \in DOMAIN taxonomy_alignments']_vars

\* C9 witness: two lineage lookups failed and the other collected ids are indexed
C9_Witness ==
    /\ IndexBuilt
    /\ Collected = {5, 6, 7}
    /\ failed = {<<"lineage", 6>>, <<"lineage", 5>>}
    /\ DOMAIN taxonomy_alignments = {"7"}

\* a finished task put a retained hit keyed on taxon T into a partition
HitClassified(T) ==
    \E i \in DOMAIN futures :
        /\ Finished(i)
        /\ \E k \in DOMAIN Retained(i) :
              /\ LastToken(Retained(i)[k].staxids) = StrOf(T)
              /\ Retained(i)[k].acc \in parts[i].recipient_accession
                                          \cup parts[i].outgroup_accession

\* C10 as claimed: a taxon id with a failed lineage, rank or name lookup has no
\* entry in the index and no hit keyed on it is put into a partition.
C10_AnyFailedLookupExcludes ==
    IndexBuilt =>
        \A l \in failed :
            /\ StrOf(l[2]) \notin DOMAIN taxonomy_alignments
            /\ ~HitClassified(l[2])

\* C10 amended: a taxon id whose lineage lookup fails has no entry in the index
\* and no hit keyed on it is put into the recipient or the outgroup partition;
\* a collected id whose lineage lookup succeeded has an entry even when its
\* rank or display-name lookup failed.
C10_FailedLineageExcludes ==
    IndexBuilt =>
        \A T \in Collected :
            IF <<"lineage", T>> \in failed
            THEN /\ StrOf(T) \notin DOMAIN taxonomy_alignments
                 /\ ~HitClassified(T)
            ELSE StrOf(T) \in DOMAIN taxonomy_alignments

\* C10 witness: the lineage lookup of taxon 6 failed, and a task that
\* classified a recipient hit left the hit keyed on 6 out of both partitions
C10_Witness ==
    /\ IndexBuilt
    /\ <<"lineage", 6>> \in failed
    /\ \E i \in DOMAIN futures :
          /\ Finished(i)
          /\ parts[i].classified
          /\ parts[i].recipient_accession = {"a1"}
          /\ parts[i].outgroup_accession = {}
          /\ \E k \in DOMAIN Retained(i) : Retained(i)[k].acc = "a2"

\* the tasks that returned a result, in the order in which they finished
CompletedNonNull == SelectSeq(completed, LAMBDA i : futures[i].result # None)

\* C11 as claimed: the written sequence is the non-null results in the order in
\* which their tasks finished.
C11_OrderedByCompletion ==
    pc = "done" =>
        output = [k \in DOMAIN CompletedNonNull |-> futures[CompletedNonNull[k]].result]

\* C11: when the run reaches write_output, the written sequence holds exactly
\* the non-null results, one per gene that has one, in the order in which the
\* genes were submitted, whatever the order in which their tasks finished.
C11_OrderedBySubmission ==
    pc = "done" =>
        \E f \in [DOMAIN output -> DOMAIN futures] :
            /\ \A k, l \in DOMAIN output : k < l => f[k] < f[l]
            /\ Range(f) = {i \in DOMAIN futures : futures[i].result # None}
            /\ \A k \in DOMAIN output : output[k] = futures[f[k]].result

\* C11 witness: the second gene finished first, both genes have a result, and
\* the output is written
C11_Witness ==
    /\ pc = "done"
    /\ completed = <<2, 1>>
    /\ Len(output) = 2
    /\ \A i \in DOMAIN futures : futures[i].result # None

\* the ids whose lineage the index builder looked up: the indexed ones and the
\* ones whose lineage lookup failed
ResolvedIds ==
    {t \in TaxIds : StrOf(t) \in DOMAIN taxonomy_alignments}
        \cup {l[2] : l \in {m \in failed : m[1] = "lineage"}}

\* the ids that end the taxon-id list of some hit
TerminalIds ==
    {t \in TaxIds : \E i \in DOMAIN table :
        /\ table[i].staxids # <<>>
        /\ table[i].staxids[Len(table[i].staxids)] = StrOf(t)}

\* the ids at any position of the taxon-id list of some hit
ListedIds ==
    {t \in TaxIds : \E i \in DOMAIN table :
        \E k \in DOMAIN table[i].staxids : table[i].staxids[k] = StrOf(t)}

\* C12 as claimed: the ids the index builder resolves are the terminal ids of
\* the hits' lists and the query id, and nothing else.
C12_OnlyTerminalIdsCollected ==
    IndexBuilt => ResolvedIds = TerminalIds \cup {args.query_tax}

\* C12: the ids the index builder resolves are every id at any position of any
\* hit's taxon-id list and the query id; each of them whose lineage lookup did
\* not fail is indexed, a non-terminal id included.
C12_EveryListedIdCollected ==
    IndexBuilt =>
        /\ ResolvedIds = ListedIds \cup {args.query_tax}
        /\ \A t \in ListedIds \cup {args.query_tax} :
              <<"lineage", t>> \notin failed => StrOf(t) \in DOMAIN taxonomy_alignments

\* C12 witness: a hit lists 7 before its terminal id 6, 7 ends no list and is
\* not the query, and both 6 and 7 are indexed
C12_Witness ==
    /\ IndexBuilt
    /\ \E i \in DOMAIN table : table[i].staxids = <<"7", "6">>
    /\ 7 \notin TerminalIds \cup {args.query_tax}
    /\ {"6", "7"} \subseteq DOMAIN taxonomy_alignments

\* the largest bitscore among the retained rows of task i whose accession is in accs
MaxRowBitscore(i, accs) ==
    SetMax({Retained(i)[k].bitscore :
                k \in {j \in DOMAIN Retained(i) : Retained(i)[j].acc \in accs}})

\* C13 as claimed: a task that called the scorer passed, for the recipient and
\* for the outgroup partition, the largest bitscore over all of the gene's
\* retained rows whose accession is in that partition, an accession that
\* occurs in several rows with different bitscores included.
C13_MaxOverAllRows ==
    \A i \in DOMAIN futures :
        Finished(i) /\ calls[i] # None =>
            /\ calls[i][1].max_recipient_organism_bitscore
                  = MaxRowBitscore(i, parts[i].recipient_accession)
            /\ calls[i][1].max_outgroup_bitscore
                  = MaxRowBitscore(i, parts[i].outgroup_accession)

====
